---- MODULE Spec2Model ----
(***************************************************************************)
(* A model of the Redux state container of this repository:                *)
(* createStore (src/src/createStore.js), applyMiddleware                   *)
(* (src/src/applyMiddleware.js) and compose (src/unnamed/part_000).        *)
(*                                                                         *)
(* The program is synchronous and single threaded, but the reducer, the    *)
(* listeners and the middleware are caller-supplied code that may call     *)
(* back into the store.  The model therefore keeps an explicit call stack: *)
(* one frame per dispatch() in progress (executing its reducer, or         *)
(* notifying listener number i) and one frame per middleware that is       *)
(* running.  Caller-supplied code is a nondeterministic choice among the   *)
(* calls it can make; the library code between two such choices is one     *)
(* action.                                                                 *)
(*                                                                         *)
(* JavaScript arrays are references: `arrays` is the heap of listener      *)
(* arrays, and currentListeners, nextListeners and the `listeners` local   *)
(* of a dispatch frame are addresses into it.                              *)
(***************************************************************************)
EXTENDS Integers, Sequences, FiniteSets, TLC

\* ------------------------------------------------------------------ bounds
MaxDepth == 2    \* dispatch calls in progress, one inside a listener of the other
MaxSubs  == 2    \* subscribe() calls that register a listener
MaxCalls == 3    \* transitions (completed reducer calls), the init transition included
MaxReplaceSubs == 1    \* subscribe() calls on the store whose reducer is replaced
MaxMwSubs == 1         \* subscribe() calls on the store made by applyMiddleware
MaxFuncs == 3          \* functions passed to compose

\* ------------------------------------------------------------------ values
Undefined == 0 - 1                       \* the JavaScript value undefined, as a state
NotFn     == "notfn"                     \* a value that is not a function
Reducers  == {"count", "other"}          \* reducer functions the caller supplies
ListenerFns == {"L1", "L2"}              \* listener functions the caller supplies

\* Arguments of createStore: undefined, a number, a function (an enhancer made
\* by applyMiddleware(mws)) or some other non-function value.
UndefArg    == [t |-> "undefined", n |-> Undefined, mws |-> <<>>]
NumArg(n)   == [t |-> "number", n |-> n, mws |-> <<>>]
OtherArg    == [t |-> "object", n |-> Undefined, mws |-> <<>>]
applyMiddleware(mws) == [t |-> "function", n |-> Undefined, mws |-> mws]

\* Actions: a plain object {type: t}, or a value that is not a plain object.
ActionTypes == [INIT |-> "@@redux/INIT", REPLACE |-> "@@redux/REPLACE"]
Act(t)      == [plain |-> TRUE, type |-> t]
NotPlain    == [plain |-> FALSE, type |-> "undefined"]
NoAction    == [plain |-> FALSE, type |-> "none"]
UserActions == {Act("INC"), Act("undefined"), NotPlain}

isPlainObject(action) == action.plain

\* The reducers of the runs: `count` is the spec's example
\* (state = 0, action) => action.type == "INC" ? state + 1 : state;
\* `other` starts from 1 and adds 2.
Reduce(r, state, action) ==
  LET base == IF state = Undefined THEN (IF r = "count" THEN 0 ELSE 1) ELSE state
      step == IF r = "count" THEN 1 ELSE 2
  IN  IF action.type = "INC" THEN base + step ELSE base

\* ------------------------------------------------------------------ state
VARIABLES
  pc,                \* "start", "constructing", "ready", "failed"
  args,              \* the (reducer, preloadedState, enhancer) createStore was called with
  currentReducer, currentState, currentListeners, nextListeners, isDispatching,
  arrays,            \* heap: address -> listener array
  subs,              \* one record per subscribe() closure: listener, isSubscribed
                     \* (and early: it was made before the first dispatch by a caller)
  middlewares,       \* applyMiddleware: the middleware list
  installed,         \* applyMiddleware: `dispatch` is the composed one (not the placeholder)
  stack,             \* call stack, innermost frame last
  lastOp,            \* the last call or return, and how it ended
  initCalls,         \* reducer invocations with the INIT action so far
  transitions,       \* listener snapshots taken so far (one per completed reducer call)
  invoked,           \* listener function -> times invoked
  composeRun,        \* the call compose(...funcs)(x) under study: arguments and outcome
  topDone,           \* top-level store.dispatch calls that returned normally
  aborted,           \* a listener's error has ended a dispatch
  sinceUpdate        \* since currentState was last assigned: the listeners called, and
                     \* whether a listener's error has ended a dispatch

vars == <<pc, args, currentReducer, currentState, currentListeners, nextListeners,
          isDispatching, arrays, subs, middlewares, installed, stack, lastOp,
          composeRun, initCalls, transitions, invoked, topDone, aborted, sinceUpdate>>

storeVars == <<currentReducer, currentState, currentListeners, nextListeners,
               isDispatching, arrays, subs>>
ghostVars == <<initCalls, transitions, invoked, topDone, aborted, sinceUpdate>>

\* A dispatch may pass through every middleware before it reaches the store.
MaxStack == MaxDepth + Len(middlewares)

Addrs == 1..(MaxDepth + 5)

\* ------------------------------------------------------------------ frames
Frame(kind, phase, action, caller) ==
  [kind |-> kind, phase |-> phase, action |-> action, caller |-> caller,
   listeners |-> 0, i |-> 0, snap |-> <<>>, alive |-> <<>>, called |-> <<>>, k |-> 0,
   reducer |-> NotFn]

\* The frame of a dispatch whose call currentReducer(currentState, action) is in
\* progress: the function called is the value currentReducer had at the call.
ReduceFrame(reducer, action, caller) ==
  [Frame("dispatch", "reduce", action, caller) EXCEPT !.reducer = reducer]

Top == stack[Len(stack)]
Pop == SubSeq(stack, 1, Len(stack) - 1)

\* Whose code is running.
Ctx ==
  IF stack = <<>> THEN "top"
  ELSE IF Top.kind = "dispatch" THEN (IF Top.phase = "reduce" THEN "reducer" ELSE "listener")
  ELSE Top.kind

\* The record of a call or return: what ended, how, and the value returned (val: a
\* state, act: an action); for unsubscribe val is the handle called, for
\* replaceReducer the reducer passed.
Op(op, result, val, act) ==
  [op |-> op, result |-> result, val |-> val, act |-> act]

\* ------------------------------------------------------------------ heap
RootsOf(cur, nxt, stk) ==
  {cur, nxt} \cup {stk[j].listeners : j \in {j \in 1..Len(stk) : stk[j].phase = "notify"}}

\* Arrays no reference reaches are reclaimed.
Gc(arr, roots) == [a \in Addrs |-> IF a \in roots THEN arr[a] ELSE <<>>]

FreshAddr ==
  LET free == Addrs \ RootsOf(currentListeners, nextListeners, stack)
  IN  CHOOSE a \in free : \A b \in free : a <= b

\* ------------------------------------------------------------------ arrays
\* Array.prototype.indexOf: 0-based, -1 when absent.
IndexOf(seq, x) ==
  IF \E j \in 1..Len(seq) : seq[j] = x
  THEN (CHOOSE j \in 1..Len(seq) : seq[j] = x /\ \A m \in 1..(j - 1) : seq[m] # x) - 1
  ELSE 0 - 1

SpliceNothing(seq, index) == seq

SpliceToEnd(seq, index) ==
  SubSeq(seq, 1, IF index < 0 THEN (IF Len(seq) + index < 0 THEN 0 ELSE Len(seq) + index)
                 ELSE (IF index > Len(seq) THEN Len(seq) ELSE index))

\* Array.prototype.splice(index, 1): a negative index counts from the end.
Splice(seq, index) ==
  LET start == IF index < 0
               THEN (IF Len(seq) + index < 0 THEN 0 ELSE Len(seq) + index)
               ELSE (IF index > Len(seq) THEN Len(seq) ELSE index)
  IN  [j \in 1..(IF start < Len(seq) THEN Len(seq) - 1 ELSE Len(seq)) |->
         IF j <= start THEN seq[j] ELSE seq[j + 1]]

\* ------------------------------------------------------------------ createStore
ensureWithoutCopy == [next |-> nextListeners, arrays |-> arrays]

\* ensureCanMutateNextListeners: the address nextListeners has afterwards, and the heap.
ensureCanMutateNextListeners ==
  IF nextListeners = currentListeners
  THEN LET a == FreshAddr
       IN  [next |-> a, arrays |-> [arrays EXCEPT ![a] = arrays[currentListeners]]]
  ELSE [next |-> nextListeners, arrays |-> arrays]

\* A call that throws, or returns at once: nothing but the record of it changes.
Returns(op, result, val, act) ==
  /\ lastOp' = Op(op, result, val, act)
  /\ UNCHANGED <<pc, args, composeRun, storeVars, middlewares, installed, stack, ghostVars>>

InitialStateDropped(preloadedState) == Undefined

\* let currentState = preloadedState
InitialState(preloadedState) == preloadedState.n

getStateUnguarded ==
  /\ pc = "ready"
  /\ Ctx \in {"top", "reducer", "listener"}
  /\ Returns("getState", "ok", currentState, NoAction)

getState ==
  /\ pc = "ready"
  /\ Ctx \in {"top", "reducer", "listener"}
  /\ IF isDispatching
     THEN Returns("getState", "contextError", Undefined, NoAction)
     ELSE Returns("getState", "ok", currentState, NoAction)

subscribe(listener) ==
  /\ pc = "ready"
  /\ Ctx \in {"top", "reducer", "listener"}
  /\ IF listener = NotFn
     THEN Returns("subscribe", "argumentError", Undefined, NoAction)
     ELSE IF isDispatching
     THEN Returns("subscribe", "contextError", Undefined, NoAction)
     ELSE /\ Len(subs) < MaxSubs
          /\ LET e == ensureCanMutateNextListeners
             IN  /\ nextListeners' = e.next
                 /\ arrays' = [e.arrays EXCEPT ![e.next] = Append(@, listener)]
          /\ subs' = Append(subs, [listener |-> listener, isSubscribed |-> TRUE,
                                   early |-> (transitions = 1)])
          /\ lastOp' = Op("subscribe", "ok", Undefined, NoAction)
          /\ UNCHANGED <<pc, args, composeRun, currentReducer, currentState, currentListeners,
                         isDispatching, middlewares, installed, stack, ghostVars>>

unsubscribeAgain(h) ==
  /\ pc = "ready"
  /\ Ctx \in {"top", "reducer", "listener"}
  /\ h \in 1..Len(subs)
  /\ IF isDispatching
     THEN Returns("unsubscribe", "contextError", h, NoAction)
     ELSE /\ subs' = [subs EXCEPT ![h].isSubscribed = FALSE]
          /\ LET e == ensureCanMutateNextListeners
                 index == IndexOf(e.arrays[e.next], subs[h].listener)
             IN  /\ nextListeners' = e.next
                 /\ arrays' = [e.arrays EXCEPT ![e.next] = Splice(@, index)]
          /\ lastOp' = Op("unsubscribe", "ok", h, NoAction)
          /\ UNCHANGED <<pc, args, composeRun, currentReducer, currentState, currentListeners,
                         isDispatching, middlewares, installed, stack, ghostVars>>

unsubscribe(h) ==
  /\ pc = "ready"
  /\ Ctx \in {"top", "reducer", "listener"}
  /\ h \in 1..Len(subs)
  /\ IF ~subs[h].isSubscribed
     THEN Returns("unsubscribe", "noop", h, NoAction)
     ELSE IF isDispatching
     THEN Returns("unsubscribe", "contextError", h, NoAction)
     ELSE /\ subs' = [subs EXCEPT ![h].isSubscribed = FALSE]
          /\ LET e == ensureCanMutateNextListeners
                 index == IndexOf(e.arrays[e.next], subs[h].listener)
             IN  /\ nextListeners' = e.next
                 /\ arrays' = [e.arrays EXCEPT ![e.next] = Splice(@, index)]
          /\ lastOp' = Op("unsubscribe", "ok", h, NoAction)
          /\ UNCHANGED <<pc, args, composeRun, currentReducer, currentState, currentListeners,
                         isDispatching, middlewares, installed, stack, ghostVars>>

ReentrantIgnored == FALSE

\* if (isDispatching) throw new Error('Reducers may not dispatch actions.')
Reentrant == isDispatching

dispatchTypeUnchecked(action, caller) ==
  IF ~isPlainObject(action)
  THEN Returns("dispatch", "argumentError", Undefined, action)
  ELSE IF Reentrant
  THEN Returns("dispatch", "contextError", Undefined, action)
  ELSE /\ Len(stack) < MaxStack
       /\ transitions < MaxCalls
       /\ isDispatching' = TRUE
       /\ stack' = Append(stack, ReduceFrame(currentReducer, action, caller))
       /\ initCalls' = IF action.type = ActionTypes.INIT THEN initCalls + 1 ELSE initCalls
       /\ lastOp' = Op("dispatch", "reducing", Undefined, action)
       /\ UNCHANGED <<pc, args, composeRun, currentReducer, currentState, currentListeners,
                      nextListeners, arrays, subs, middlewares, installed,
                      transitions, invoked, topDone, aborted, sinceUpdate>>

\* dispatch, up to the call of the reducer: the checks, isDispatching = true, and the
\* reducer starts.  `caller` is who gets the result: "top", "listener" or "reducer"
\* (caller-supplied code holding the store), "middleware" (the last middleware's
\* next), "init" (createStore) or "replace" (replaceReducer).
dispatch(action, caller) ==
  IF ~isPlainObject(action)
  THEN Returns("dispatch", "argumentError", Undefined, action)
  ELSE IF action.type = "undefined"
  THEN Returns("dispatch", "argumentError", Undefined, action)
  ELSE IF Reentrant
  THEN Returns("dispatch", "contextError", Undefined, action)
  ELSE /\ Len(stack) < MaxStack
       /\ transitions < MaxCalls
       /\ isDispatching' = TRUE
       /\ stack' = Append(stack, ReduceFrame(currentReducer, action, caller))
       /\ initCalls' = IF action.type = ActionTypes.INIT THEN initCalls + 1 ELSE initCalls
       /\ lastOp' = Op("dispatch", "reducing", Undefined, action)
       /\ UNCHANGED <<pc, args, composeRun, currentReducer, currentState, currentListeners,
                      nextListeners, arrays, subs, middlewares, installed,
                      transitions, invoked, topDone, aborted, sinceUpdate>>

InitActionWrong == Act(ActionTypes.REPLACE)

\* dispatch({ type: ActionTypes.INIT }), the last statement of createStore
InitAction == Act(ActionTypes.INIT)

\* Where control goes when createStore's own dispatch(INIT) has returned: createStore
\* returns the store, to the caller or to the enhancer, which then sets the placeholder
\* dispatch and instantiates the middleware from left to right.
AfterCreate ==
  IF args.enhancer.t = "function" /\ middlewares # <<>>
  THEN [pc |-> "constructing", installed |-> FALSE,
        stack |-> <<[Frame("mwInit", "init", NoAction, "applyMiddleware") EXCEPT !.k = 1]>>]
  ELSE [pc |-> "ready", installed |-> (args.enhancer.t = "function"), stack |-> <<>>]

\* Where control goes when the dispatch of frame f returns normally.
AfterDispatch(f) ==
  IF f.caller = "init" THEN AfterCreate
  ELSE [pc |-> pc, installed |-> installed, stack |-> Pop]

\* dispatch returns action: the end of the notification pass of frame f.
DispatchReturn(f, cur) ==
  LET c == AfterDispatch(f)
  IN  /\ pc' = c.pc
      /\ installed' = c.installed
      /\ stack' = c.stack
      /\ arrays' = Gc(arrays, RootsOf(cur, nextListeners, c.stack))
      /\ topDone' = IF f.caller = "top" THEN topDone + 1 ELSE topDone
      /\ UNCHANGED aborted
      /\ lastOp' = IF f.caller = "init" /\ c.pc = "ready"
                    THEN Op("createStore", "ok", Undefined, NoAction)
                    ELSE IF f.caller = "replace"
                    THEN Op("replaceReducer", "ok", Undefined, NoAction)
                    ELSE Op("dispatch", "ok", Undefined, f.action)

FlagLeftSet == isDispatching

\* finally { isDispatching = false }
FlagAfterReducer == FALSE

SnapshotStale == currentListeners

\* const listeners = (currentListeners = nextListeners)
Snapshot == nextListeners

Last(seq) == seq[Len(seq)]

\* for (i ...) { const listener = listeners[i]; listener() }: the frame of a pass
\* that calls listener number j of its array.
InvokeFirst(f, j) ==
  [f EXCEPT !.i = j, !.called = Append(@, arrays[f.listeners][1])]

Invoke(f, j) ==
  [f EXCEPT !.i = j, !.called = Append(@, arrays[f.listeners][j])]

\* The reducer returns: currentState = its result, finally isDispatching = false,
\* listeners = (currentListeners = nextListeners), and the loop calls listeners[0]
\* or, the array being empty, dispatch returns.
ReducerReturns ==
  /\ stack # <<>> /\ Top.kind = "dispatch" /\ Top.phase = "reduce"
  /\ currentState' = Reduce(Top.reducer, currentState, Top.action)
  /\ isDispatching' = FlagAfterReducer
  /\ currentListeners' = Snapshot
  /\ transitions' = transitions + 1
  /\ sinceUpdate' = [called |-> IF arrays[Snapshot] = <<>> THEN {} ELSE {arrays[Snapshot][1]},
                     threw  |-> FALSE]
  /\ LET f == [Top EXCEPT !.phase = "notify", !.reducer = NotFn, !.listeners = Snapshot,
                          !.snap = arrays[Snapshot],
                          !.alive = [h \in 1..Len(subs) |-> subs[h].isSubscribed]]
     IN  IF 0 < Len(arrays[f.listeners])
         THEN /\ stack' = [stack EXCEPT ![Len(stack)] = Invoke(f, 1)]
              /\ invoked' = [invoked EXCEPT ![Last(Invoke(f, 1).called)] = @ + 1]
              /\ arrays' = Gc(arrays, RootsOf(Snapshot, nextListeners, stack'))
              /\ lastOp' = Op("reducer", "returned", Undefined, NoAction)
              /\ UNCHANGED <<pc, installed, topDone, aborted>>
         ELSE /\ DispatchReturn(f, Snapshot)
              /\ UNCHANGED invoked
  /\ UNCHANGED <<args, composeRun, currentReducer, nextListeners, subs, middlewares, initCalls>>

ReducerThrowsStateLost ==
  /\ stack # <<>> /\ Top.kind = "dispatch" /\ Top.phase = "reduce"
  /\ isDispatching' = FALSE
  /\ currentState' = Undefined
  /\ IF Top.caller = "init"
     THEN pc' = "failed" /\ stack' = <<>>
     ELSE pc' = pc /\ stack' = Pop
  /\ lastOp' = Op("dispatch", "reducerError", Undefined, NoAction)
  /\ UNCHANGED <<args, composeRun, currentReducer, currentListeners, nextListeners,
                 arrays, subs, middlewares, installed, ghostVars>>

\* The reducer throws: finally isDispatching = false, and the error leaves dispatch.
\* createStore does not catch it: construction fails.
ReducerThrows ==
  /\ stack # <<>> /\ Top.kind = "dispatch" /\ Top.phase = "reduce"
  /\ isDispatching' = FlagAfterReducer
  /\ IF Top.caller = "init"
     THEN pc' = "failed" /\ stack' = <<>>
     ELSE pc' = pc /\ stack' = Pop
  /\ lastOp' = Op("dispatch", "reducerError", Undefined, NoAction)
  /\ UNCHANGED <<args, composeRun, currentReducer, currentState, currentListeners, nextListeners,
                 arrays, subs, middlewares, installed, ghostVars>>

\* A listener returns: i++, and the loop calls the next listener of the array or,
\* i having reached listeners.length, dispatch returns.
ListenerReturns ==
  /\ stack # <<>> /\ Top.kind = "dispatch" /\ Top.phase = "notify"
  /\ LET f == Top
     IN  IF f.i < Len(arrays[f.listeners])
         THEN /\ stack' = [stack EXCEPT ![Len(stack)] = Invoke(f, f.i + 1)]
              /\ invoked' = [invoked EXCEPT ![Last(Invoke(f, f.i + 1).called)] = @ + 1]
              /\ sinceUpdate' = [sinceUpdate EXCEPT
                                   !.called = @ \cup {Last(Invoke(f, f.i + 1).called)}]
              /\ lastOp' = Op("listener", "returned", Undefined, NoAction)
              /\ UNCHANGED <<pc, installed, arrays, topDone, aborted>>
         ELSE /\ DispatchReturn(f, currentListeners)
              /\ UNCHANGED <<invoked, sinceUpdate>>
  /\ UNCHANGED <<args, composeRun, currentReducer, currentState, currentListeners, nextListeners,
                 isDispatching, subs, middlewares, initCalls, transitions>>

ListenerThrowsCaught ==
  /\ stack # <<>> /\ Top.kind = "dispatch" /\ Top.phase = "notify"
  /\ LET f == Top
     IN  IF f.i < Len(arrays[f.listeners])
         THEN /\ stack' = [stack EXCEPT ![Len(stack)] = Invoke(f, f.i + 1)]
              /\ invoked' = [invoked EXCEPT ![Last(Invoke(f, f.i + 1).called)] = @ + 1]
              /\ UNCHANGED arrays
         ELSE /\ stack' = Pop
              /\ arrays' = Gc(arrays, RootsOf(currentListeners, nextListeners, Pop))
              /\ UNCHANGED invoked
  /\ lastOp' = Op("dispatch", "listenerError", Undefined, NoAction)
  /\ aborted' = TRUE
  /\ sinceUpdate' = [sinceUpdate EXCEPT !.threw = TRUE]
  /\ UNCHANGED <<pc, args, composeRun, currentReducer, currentState, currentListeners,
                 nextListeners, isDispatching, subs, middlewares, installed,
                 initCalls, transitions, topDone>>

\* A listener throws: the loop is left and the error leaves dispatch.
ListenerThrows ==
  /\ stack # <<>> /\ Top.kind = "dispatch" /\ Top.phase = "notify"
  /\ stack' = Pop
  /\ arrays' = Gc(arrays, RootsOf(currentListeners, nextListeners, Pop))
  /\ lastOp' = Op("dispatch", "listenerError", Undefined, NoAction)
  /\ aborted' = TRUE
  /\ sinceUpdate' = [sinceUpdate EXCEPT !.threw = TRUE]
  /\ UNCHANGED <<pc, args, composeRun, currentReducer, currentState, currentListeners,
                 nextListeners, isDispatching, subs, middlewares, installed,
                 initCalls, transitions, invoked, topDone>>

ReplaceAction == Act(ActionTypes.REPLACE)

replaceReducerNoSwap(nextReducer) ==
  /\ pc = "ready"
  /\ Ctx \in {"top", "reducer", "listener"}
  /\ IF nextReducer = NotFn
     THEN Returns("replaceReducer", "argumentError", nextReducer, NoAction)
     ELSE /\ currentReducer' = currentReducer
          /\ IF Reentrant
             THEN /\ lastOp' = Op("replaceReducer", "contextError", nextReducer, NoAction)
                  /\ UNCHANGED <<isDispatching, stack>>
             ELSE /\ Len(stack) < MaxStack
                  /\ transitions < MaxCalls
                  /\ isDispatching' = TRUE
                  /\ stack' = Append(stack, ReduceFrame(nextReducer, ReplaceAction,
                                                        "replace"))
                  /\ lastOp' = Op("replaceReducer", "reducing", nextReducer, ReplaceAction)
          /\ UNCHANGED <<pc, args, composeRun, currentState, currentListeners, nextListeners,
                         arrays, subs, middlewares, installed, ghostVars>>

replaceReducerThroughChain(nextReducer) ==
  /\ pc = "ready"
  /\ Ctx \in {"top", "reducer", "listener"}
  /\ IF nextReducer = NotFn
     THEN Returns("replaceReducer", "argumentError", nextReducer, NoAction)
     ELSE /\ currentReducer' = nextReducer
          /\ IF middlewares # <<>>
             THEN /\ Len(stack) < MaxStack
                  /\ stack' = Append(stack, [Frame("middleware", "run", ReplaceAction,
                                                   "replace") EXCEPT !.k = 1])
                  /\ lastOp' = Op("replaceReducer", "called", nextReducer, ReplaceAction)
                  /\ UNCHANGED isDispatching
             ELSE IF Reentrant
             THEN /\ lastOp' = Op("replaceReducer", "contextError", nextReducer, NoAction)
                  /\ UNCHANGED <<isDispatching, stack>>
             ELSE /\ Len(stack) < MaxStack
                  /\ transitions < MaxCalls
                  /\ isDispatching' = TRUE
                  /\ stack' = Append(stack, ReduceFrame(nextReducer, ReplaceAction,
                                                        "replace"))
                  /\ lastOp' = Op("replaceReducer", "reducing", nextReducer, ReplaceAction)
          /\ UNCHANGED <<pc, args, composeRun, currentState, currentListeners, nextListeners,
                         arrays, subs, middlewares, installed, ghostVars>>

\* replaceReducer(nextReducer): currentReducer = nextReducer, then
\* dispatch({ type: ActionTypes.REPLACE }), which throws when a reducer is executing
\* and otherwise calls the new reducer.  dispatch is the store's own, also on a store
\* made by applyMiddleware.
replaceReducer(nextReducer) ==
  /\ pc = "ready"
  /\ Ctx \in {"top", "reducer", "listener"}
  /\ IF nextReducer = NotFn
     THEN Returns("replaceReducer", "argumentError", nextReducer, NoAction)
     ELSE /\ currentReducer' = nextReducer
          /\ IF Reentrant
             THEN /\ lastOp' = Op("replaceReducer", "contextError", nextReducer, NoAction)
                  /\ UNCHANGED <<isDispatching, stack>>
             ELSE /\ Len(stack) < MaxStack
                  /\ transitions < MaxCalls
                  /\ isDispatching' = TRUE
                  /\ stack' = Append(stack, ReduceFrame(nextReducer, ReplaceAction,
                                                        "replace"))
                  /\ lastOp' = Op("replaceReducer", "reducing", nextReducer, ReplaceAction)
          /\ UNCHANGED <<pc, args, composeRun, currentState, currentListeners, nextListeners,
                         arrays, subs, middlewares, installed, ghostVars>>

\* createStore(reducer, preloadedState, enhancer), up to the call of the reducer
\* with the INIT action.
createStore(reducer, preloadedState0, enhancer0) ==
  /\ pc = "start"
  /\ LET swap == preloadedState0.t = "function" /\ enhancer0.t = "undefined"
         enhancer == IF swap THEN preloadedState0 ELSE enhancer0
         preloadedState == IF swap THEN UndefArg ELSE preloadedState0
         bad == \/ (enhancer.t # "undefined" /\ enhancer.t # "function")
                \/ reducer = NotFn
     IN  /\ args' = [reducer |-> reducer, preloadedState |-> preloadedState,
                     enhancer |-> enhancer]
         /\ UNCHANGED composeRun
         /\ IF bad
            THEN /\ pc' = "failed"
                 /\ lastOp' = Op("createStore", "argumentError", Undefined, NoAction)
                 /\ UNCHANGED <<storeVars, middlewares, installed, stack, ghostVars>>
            ELSE /\ pc' = "constructing"
                 /\ middlewares' = enhancer.mws
                 /\ currentReducer' = reducer
                 /\ currentState' = InitialState(preloadedState)
                 /\ isDispatching' = TRUE
                 /\ stack' = <<ReduceFrame(reducer, InitAction, "init")>>
                 /\ initCalls' = IF InitAction.type = ActionTypes.INIT
                                 THEN initCalls + 1 ELSE initCalls
                 /\ lastOp' = Op("dispatch", "reducing", Undefined, InitAction)
                 /\ UNCHANGED <<currentListeners, nextListeners, arrays, subs, installed,
                                transitions, invoked, topDone, aborted, sinceUpdate>>

\* ------------------------------------------------------------------ applyMiddleware
\* middleware(middlewareAPI) is running, for middleware number k of the list.
InMwInit == stack # <<>> /\ Top.kind = "mwInit"

MwInitDispatchForwarded ==
  /\ InMwInit
  /\ Len(stack) < MaxStack
  /\ stack' = Append(stack, [Frame("middleware", "run", Act("INC"), "api") EXCEPT !.k = 1])
  /\ lastOp' = Op("middlewareAPI.dispatch", "called", Undefined, Act("INC"))
  /\ UNCHANGED <<pc, args, composeRun, storeVars, middlewares, installed, ghostVars>>

\* middlewareAPI.dispatch while the placeholder is in place: it throws.
MwInitDispatch ==
  /\ InMwInit
  /\ ~installed
  /\ Returns("middlewareAPI.dispatch", "constructionError", Undefined, NoAction)

\* middlewareAPI.getState is store.getState.
MwInitGetState ==
  /\ InMwInit
  /\ IF isDispatching
     THEN Returns("getState", "contextError", Undefined, NoAction)
     ELSE Returns("getState", "ok", currentState, NoAction)

\* middleware(middlewareAPI) returns its wrapper: map goes on to the next middleware,
\* or dispatch = compose(...chain)(store.dispatch) and the enhanced store is returned.
MwInitReturns ==
  /\ InMwInit
  /\ IF Top.k < Len(middlewares)
     THEN /\ stack' = <<[Top EXCEPT !.k = @ + 1]>>
          /\ lastOp' = Op("middleware", "created", Undefined, NoAction)
          /\ UNCHANGED <<pc, installed>>
     ELSE /\ stack' = <<>>
          /\ installed' = TRUE
          /\ pc' = "ready"
          /\ lastOp' = Op("createStore", "ok", Undefined, NoAction)
  /\ UNCHANGED <<args, composeRun, storeVars, middlewares, ghostVars>>

\* middleware(middlewareAPI) throws: applyMiddleware does not catch it.
MwInitThrows ==
  /\ InMwInit
  /\ stack' = <<>>
  /\ pc' = "failed"
  /\ lastOp' = Op("createStore", "middlewareError", Undefined, NoAction)
  /\ UNCHANGED <<args, composeRun, storeVars, middlewares, installed, ghostVars>>

\* The wrapper of middleware number k of the chain is running with `action`.
InMw == stack # <<>> /\ Top.kind = "middleware"

MwFrame(k, action, caller) ==
  [Frame("middleware", "run", action, caller) EXCEPT !.k = k]

ComposedDispatchReversed(action, caller) ==
  /\ Len(stack) < MaxStack
  /\ stack' = Append(stack, MwFrame(Len(middlewares), action, caller))
  /\ lastOp' = Op(IF caller = "api" THEN "middlewareAPI.dispatch" ELSE "composedDispatch",
                  "called", Undefined, action)
  /\ UNCHANGED <<pc, args, composeRun, storeVars, middlewares, installed, ghostVars>>

\* The composed dispatch, compose(...chain)(store.dispatch): the action enters the
\* wrapper of the leftmost middleware.
ComposedDispatch(action, caller) ==
  /\ Len(stack) < MaxStack
  /\ stack' = Append(stack, MwFrame(1, action, caller))
  /\ lastOp' = Op(IF caller = "api" THEN "middlewareAPI.dispatch" ELSE "composedDispatch",
                  "called", Undefined, action)
  /\ UNCHANGED <<pc, args, composeRun, storeVars, middlewares, installed, ghostVars>>

\* store.dispatch(action) by code that holds the store returned by createStore.
StoreDispatch(action) ==
  /\ pc = "ready"
  /\ Ctx \in {"top", "reducer", "listener"}
  /\ IF middlewares # <<>>
     THEN ComposedDispatch(action, Ctx)
     ELSE dispatch(action, Ctx)

\* next(action) in the wrapper of middleware k: the wrapper of middleware k + 1, or
\* store.dispatch for the rightmost one.
MwNext(action) ==
  /\ InMw
  /\ IF Top.k < Len(middlewares)
     THEN /\ Len(stack) < MaxStack
          /\ stack' = Append(stack, MwFrame(Top.k + 1, action, "next"))
          /\ lastOp' = Op("next", "called", Undefined, action)
          /\ UNCHANGED <<pc, args, composeRun, storeVars, middlewares, installed, ghostVars>>
     ELSE dispatch(action, "middleware")

MwApiDispatchFromHere(action) ==
  /\ InMw
  /\ installed
  /\ Len(stack) < MaxStack
  /\ stack' = Append(stack, MwFrame(IF Top.k < Len(middlewares) THEN Top.k + 1 ELSE Top.k,
                                    action, "api"))
  /\ lastOp' = Op("middlewareAPI.dispatch", "called", Undefined, action)
  /\ UNCHANGED <<pc, args, composeRun, storeVars, middlewares, installed, ghostVars>>

\* middlewareAPI.dispatch(action) once the composed dispatch is installed.
MwApiDispatch(action) ==
  /\ InMw
  /\ installed
  /\ ComposedDispatch(action, "api")

MwGetState ==
  /\ InMw
  /\ IF isDispatching
     THEN Returns("getState", "contextError", Undefined, NoAction)
     ELSE Returns("getState", "ok", currentState, NoAction)

\* The wrapper returns `ret` to whoever called it.
MwReturns(ret) ==
  /\ InMw
  /\ stack' = Pop
  /\ lastOp' = Op("middleware", "returned", Undefined, ret)
  /\ UNCHANGED <<pc, args, composeRun, storeVars, middlewares, installed, ghostVars>>

MwThrows ==
  /\ InMw
  /\ stack' = Pop
  /\ lastOp' = Op("middleware", "threw", Undefined, NoAction)
  /\ UNCHANGED <<pc, args, composeRun, storeVars, middlewares, installed, ghostVars>>

\* ------------------------------------------------------------------ compose
\* Functions are applied to terms: the value of fn(v) is the term written fn
\* followed by v, so that f(g(h(x))) is <<"f", "g", "h", "x">>.  A run is the value
\* passed along and the functions called so far, in the order of the calls.
FnNames   == {"f", "g", "h"}
ArgValues == {<<"x">>, <<"y">>}

CallFn(fn, run) == [val |-> <<fn>> \o run.val, calls |-> Append(run.calls, fn)]

RECURSIVE LeftToRight(_, _)
LeftToRight(funcs, run) ==
  IF funcs = <<>> THEN run
  ELSE LeftToRight(SubSeq(funcs, 2, Len(funcs)), CallFn(funcs[1], run))

\* funcs.reduce((a, b) => (...args) => a(b(...args))), applied: the function
\* accumulated from all but the last of funcs is called with what the last returns.
RECURSIVE Reduced(_, _)
Reduced(funcs, run) ==
  IF Len(funcs) = 1 THEN CallFn(funcs[1], run)
  ELSE Reduced(SubSeq(funcs, 1, Len(funcs) - 1), CallFn(funcs[Len(funcs)], run))

\* compose(...funcs)(x)
compose(funcs, run) ==
  IF Len(funcs) = 0 THEN run
  ELSE IF Len(funcs) = 1 THEN CallFn(funcs[1], run)
  ELSE Reduced(funcs, run)

NoRun == [funcs |-> <<>>, x |-> <<>>, done |-> FALSE, val |-> <<>>, calls |-> <<>>]

SeqsUpTo(S, n) == UNION {[1..m -> S] : m \in 0..n}

ComposeInputs ==
  {[NoRun EXCEPT !.funcs = fs, !.x = x] : fs \in SeqsUpTo(FnNames, MaxFuncs), x \in ArgValues}

\* The composed function is called with x and returns.
CallComposed ==
  /\ ~composeRun.done
  /\ composeRun.x # <<>>
  /\ LET r == compose(composeRun.funcs, [val |-> composeRun.x, calls |-> <<>>])
     IN  composeRun' = [composeRun EXCEPT !.done = TRUE, !.val = r.val, !.calls = r.calls]
  /\ UNCHANGED <<pc, args, storeVars, middlewares, installed, stack, lastOp, ghostVars>>

\* ------------------------------------------------------------------ specification
StoreInit ==
  /\ pc = "start"
  /\ args = [reducer |-> NotFn, preloadedState |-> UndefArg, enhancer |-> UndefArg]
  /\ currentReducer = NotFn
  /\ currentState = Undefined
  /\ currentListeners = 1
  /\ nextListeners = 1
  /\ isDispatching = FALSE
  /\ arrays = [a \in Addrs |-> <<>>]
  /\ subs = <<>>
  /\ middlewares = <<>>
  /\ installed = FALSE
  /\ stack = <<>>
  /\ lastOp = Op("none", "none", Undefined, NoAction)
  /\ initCalls = 0
  /\ transitions = 0
  /\ invoked = [l \in ListenerFns |-> 0]
  /\ topDone = 0
  /\ aborted = FALSE
  /\ sinceUpdate = [called |-> {}, threw |-> FALSE]

Init == StoreInit /\ composeRun = NoRun

\* The calls of createStore the runs make: (reducer, preloadedState, enhancer).
MwConfigs ==
  { <<"count", applyMiddleware(<<"A">>), UndefArg>>,
    <<"count", NumArg(5), applyMiddleware(<<"A", "B">>)>> }
Configs ==
  { <<"count", UndefArg, UndefArg>>,
    <<"count", UndefArg, OtherArg>>,
    <<NotFn, UndefArg, UndefArg>> } \cup MwConfigs

\* The listener functions a caller may pass to subscribe: one already subscribed,
\* or a new one; new ones are named in the order of their first use.
Subscribable ==
  IF \E h \in 1..Len(subs) : subs[h].listener = "L1"
  THEN ListenerFns \cup {NotFn}
  ELSE {"L1", NotFn}

\* The store was made by createStore alone, without an enhancer.
Plain == pc = "ready" /\ args.enhancer.t = "undefined"

\* Construction with and without an enhancer, and every use of a store made
\* without one.
Next ==
  \/ \E c \in Configs : createStore(c[1], c[2], c[3])
  \/ ReducerReturns
  \/ ReducerThrows
  \/ ListenerReturns
  \/ ListenerThrows
  \/ MwInitDispatch
  \/ MwInitGetState
  \/ MwInitReturns
  \/ MwInitThrows
  \/ getState
  \/ Plain /\ \E l \in Subscribable : subscribe(l)
  \/ Plain /\ \E h \in 1..MaxSubs : unsubscribe(h)
  \/ Plain /\ \E a \in UserActions : StoreDispatch(a)

Spec == Init /\ [][Next]_vars

\* The reducers a caller may pass to replaceReducer.
Replacements == {"other", NotFn}

\* A store made without an enhancer, every use of it, and the replacement of its
\* reducer.
NextReplace ==
  \/ createStore("count", UndefArg, UndefArg)
  \/ ReducerReturns
  \/ ReducerThrows
  \/ ListenerReturns
  \/ ListenerThrows
  \/ getState
  \/ Len(subs) < MaxReplaceSubs /\ \E l \in Subscribable : subscribe(l)
  \/ \E h \in 1..MaxReplaceSubs : unsubscribe(h)
  \/ \E a \in UserActions : StoreDispatch(a)
  \/ \E r \in Replacements : replaceReducer(r)

SpecReplace == Init /\ [][NextReplace]_vars

\* Construction with the middleware enhancer, and every use of the store it makes.
NextMw ==
  \/ \E c \in MwConfigs : createStore(c[1], c[2], c[3])
  \/ ReducerReturns
  \/ ReducerThrows
  \/ ListenerReturns
  \/ ListenerThrows
  \/ MwInitDispatch
  \/ MwInitGetState
  \/ MwInitReturns
  \/ MwInitThrows
  \/ getState
  \/ Len(subs) < MaxMwSubs /\ subscribe("L1")
  \/ \E a \in {Act("INC"), NotPlain} : StoreDispatch(a)
  \/ \E r \in Replacements : replaceReducer(r)
  \/ InMw /\ \E a \in {Act("INC"), Top.action} : MwNext(a)
  \/ MwApiDispatch(Act("INC"))
  \/ MwGetState
  \/ InMw /\ \E ret \in {Top.action, lastOp.act} : MwReturns(ret)
  \/ MwThrows

SpecMw == Init /\ [][NextMw]_vars

\* Calls of compose(...funcs)(x) for every list of up to MaxFuncs functions.
InitCompose == StoreInit /\ composeRun \in ComposeInputs
NextCompose == CallComposed
SpecCompose == InitCompose /\ [][NextCompose]_vars

\* ------------------------------------------------------------------ claims
Range(seq) == {seq[j] : j \in 1..Len(seq)}
Count(seq, x) == Cardinality({j \in 1..Len(seq) : seq[j] = x})
Handles == 1..Len(subs)

\* The dispatch calls whose notification pass is in progress.
NotifyFrames ==
  {j \in 1..Len(stack) : stack[j].kind = "dispatch" /\ stack[j].phase = "notify"}
ReduceFrames ==
  {j \in 1..Len(stack) : stack[j].kind = "dispatch" /\ stack[j].phase = "reduce"}

\* No other subscription is of the same listener function.
UniqueFn(h) == \A g \in Handles : g # h => subs[g].listener # subs[h].listener

\* The listeners of the pass of frame f: those it has invoked, then those its loop
\* has yet to reach.
Pass(f) == f.called \o SubSeq(arrays[f.listeners], f.i + 1, Len(arrays[f.listeners]))

Valid(action) == isPlainObject(action) /\ action.type # "undefined"
CallResults == {"argumentError", "contextError", "reducing"}
EndResults == {"ok", "reducerError", "listenerError"}
DispatchCalled == lastOp'.op = "dispatch" /\ lastOp'.result \in CallResults
ReducerReturned == isDispatching /\ ~isDispatching' /\ lastOp'.result # "reducerError"

\* C1: a subscription made after the snapshot of a pass (from a listener of that
\* pass, or from anything that listener calls) is not in that pass; a subscription
\* made before the snapshot of a pass and not unsubscribed since is in that pass
\* exactly once, whether the dispatch is nested in a listener or not.
C1_SubscribeSnapshot ==
  \A j \in NotifyFrames : \A h \in Handles :
    UniqueFn(h) =>
      /\ h > Len(stack[j].alive) => Count(Pass(stack[j]), subs[h].listener) = 0
      /\ (h <= Len(stack[j].alive) /\ stack[j].alive[h] /\ subs[h].isSubscribed)
           => Count(Pass(stack[j]), subs[h].listener) = 1

\* L2 was subscribed during the pass of frame j1, is not in it, and has been invoked
\* in the pass of the dispatch j2 nested in it.
C1_Witness ==
  \E j1 \in NotifyFrames, j2 \in NotifyFrames, h \in Handles :
    /\ j1 < j2
    /\ UniqueFn(h)
    /\ h > Len(stack[j1].alive)
    /\ h <= Len(stack[j2].alive)
    /\ subs[h].listener \in Range(stack[j2].called)
    /\ subs[h].listener \notin Range(Pass(stack[j1]))

\* C2: a subscription that was active at the snapshot of a pass and has been
\* unsubscribed since is still in that pass exactly once; a subscription unsubscribed
\* before the snapshot of a pass is not in that pass.
C2_UnsubscribeSnapshot ==
  \A j \in NotifyFrames : \A h \in 1..Len(stack[j].alive) :
    UniqueFn(h) =>
      /\ (stack[j].alive[h] /\ ~subs[h].isSubscribed)
           => Count(Pass(stack[j]), subs[h].listener) = 1
      /\ ~stack[j].alive[h] => Count(Pass(stack[j]), subs[h].listener) = 0

\* The listener before L has just returned and the loop has invoked L, which was
\* unsubscribed earlier in this pass.
C2_Witness ==
  /\ stack # <<>>
  /\ Len(stack) \in NotifyFrames
  /\ lastOp.op = "listener"
  /\ \E h \in 1..Len(Top.alive) :
       /\ UniqueFn(h)
       /\ Top.alive[h]
       /\ ~subs[h].isSubscribed
       /\ Top.i > 1
       /\ Top.called[Top.i] = subs[h].listener

\* C3: the array a pass iterates is never modified: at every depth it is the
\* registry as it was when the pass took its snapshot, and the pass has invoked
\* exactly the first i listeners of it, in order.
C3_PassArrayUnmodified ==
  \A j \in NotifyFrames :
    /\ arrays[stack[j].listeners] = stack[j].snap
    /\ stack[j].i \in 1..Len(stack[j].snap)
    /\ stack[j].called = SubSeq(arrays[stack[j].listeners], 1, stack[j].i)

\* An outer pass, a dispatch nested in it that took another snapshot, and the
\* registry changed again since.
C3_Witness ==
  /\ Len(stack) = 2
  /\ NotifyFrames = {1, 2}
  /\ stack[1].snap # stack[2].snap
  /\ arrays[nextListeners] # stack[2].snap
  /\ arrays[nextListeners] # stack[1].snap

\* C4: a valid dispatch issued while the reducer is executing fails with the
\* context error and changes nothing: the stored state, the registry and the call
\* stack are as they were, no listener is notified and no second reducer call
\* begins; the outer dispatch then stores the result of its own reducer call.
C4_ReentrantDispatchRejected ==
  [][ /\ (isDispatching /\ DispatchCalled /\ Valid(lastOp'.act))
           => /\ lastOp'.result = "contextError"
              /\ UNCHANGED <<storeVars, stack, transitions, invoked>>
      /\ (lastOp.op = "dispatch" /\ lastOp.result = "contextError" /\ ReducerReturned)
           => /\ currentState' = Reduce(currentReducer, currentState, Top.action)
              /\ transitions' = transitions + 1 ]_vars

\* The reducer of a caller's dispatch has called dispatch with a valid action and
\* got the context error, with a listener registered.
C4_Witness ==
  /\ pc = "ready"
  /\ isDispatching
  /\ Ctx = "reducer"
  /\ lastOp.op = "dispatch" /\ lastOp.result = "contextError"
  /\ Valid(lastOp.act)
  /\ \E h \in Handles : subs[h].isSubscribed

\* C5: when the reducer throws, the dispatching flag is reset, the stored state and
\* the registry are unchanged, no listener is notified, and the error leaves the
\* dispatch call to its caller.
C5_ReducerFailure ==
  [][ (lastOp'.op = "dispatch" /\ lastOp'.result = "reducerError")
        => /\ isDispatching /\ ~isDispatching'
           /\ currentState' = currentState
           /\ UNCHANGED <<currentListeners, nextListeners, arrays, subs>>
           /\ invoked' = invoked
           /\ transitions' = transitions
           /\ IF Top.caller = "init" THEN pc' = "failed" /\ stack' = <<>>
                                     ELSE pc' = pc /\ stack' = Pop ]_vars

\* The reducer of a caller's dispatch has thrown after a state transition, with a
\* listener registered.
C5_Witness ==
  /\ pc = "ready"
  /\ stack = <<>>
  /\ lastOp.op = "dispatch" /\ lastOp.result = "reducerError"
  /\ transitions > 1
  /\ \E h \in Handles : subs[h].isSubscribed

\* The dispatching flag is true exactly while a reducer call is executing, and at
\* most one reducer call is executing.
FlagIffReducer ==
  /\ isDispatching <=> (stack # <<>> /\ Len(stack) \in ReduceFrames)
  /\ Cardinality(ReduceFrames) <= 1

\* C6 (as stated): the flag is true exactly while the reducer executes, and false
\* whenever a dispatch call returns or throws.
C6_Original ==
  /\ FlagIffReducer
  /\ (lastOp.op = "dispatch" /\ lastOp.result # "reducing") => ~isDispatching

\* C6: the flag is true exactly while the reducer executes; it is false whenever a
\* dispatch call that reached its reducer returns or throws, and whenever a dispatch
\* call made outside a reducer throws; a valid dispatch issued after a dispatch whose
\* reducer failed is accepted.
C6_DispatchingFlag ==
  /\ [](/\ FlagIffReducer
        /\ (lastOp.op = "dispatch" /\ lastOp.result \in EndResults) => ~isDispatching
        /\ (lastOp.op = "dispatch" /\ lastOp.result # "reducing" /\ Ctx # "reducer")
             => ~isDispatching)
  /\ [][ (lastOp.result = "reducerError" /\ DispatchCalled /\ Valid(lastOp'.act))
           => lastOp'.result = "reducing" /\ isDispatching' ]_vars

\* The reducer of a dispatch nested in a listener has thrown: the listener has
\* the error, the flag is false and the outer pass is still in progress.
C6_Witness ==
  /\ lastOp.op = "dispatch" /\ lastOp.result = "reducerError"
  /\ Ctx = "listener"
  /\ ~isDispatching

\* C7: while the reducer executes, getState and subscribe fail, unsubscribe of an
\* active subscription fails, and none of them changes the store: the subscription
\* stays active.
C7_NoStoreAccessInReducer ==
  [][ (isDispatching /\ lastOp'.op \in {"getState", "subscribe", "unsubscribe"})
        => /\ UNCHANGED <<storeVars, stack, transitions, invoked>>
           /\ lastOp'.op = "getState" => lastOp'.result = "contextError"
           /\ lastOp'.op = "subscribe"
                => lastOp'.result \in {"contextError", "argumentError"}
           /\ (lastOp'.op = "unsubscribe" /\ subs[lastOp'.val].isSubscribed)
                => lastOp'.result = "contextError" ]_vars

\* The reducer has called unsubscribe on an active subscription and got the error.
C7_Witness ==
  /\ isDispatching
  /\ lastOp.op = "unsubscribe" /\ lastOp.result = "contextError"
  /\ subs[lastOp.val].isSubscribed
  /\ arrays[nextListeners] # <<>>

\* The caller has no call in progress on a store that is ready.
Idle == pc = "ready" /\ stack = <<>>

\* Subscribed once before the first dispatch of a caller, and still subscribed.
Early(h) == subs[h].early /\ subs[h].isSubscribed /\ UniqueFn(h)

\* C8 (as stated, the count): after n successful top-level dispatches, none of
\* which was ended by an error, a listener registered before the first (once, and
\* still subscribed) has been invoked exactly n times.
C8_Original ==
  (Idle /\ ~aborted)
    => \A h \in Handles : Early(h) => invoked[subs[h].listener] = topDone

\* C8: a valid dispatch outside a reducer calls the reducer once with the current
\* state and the action and stores the result before the first listener runs (a
\* listener that reads sees the stored state); the pass invokes the listeners of
\* its snapshot once each in registration order; dispatch returns its action only
\* after the whole snapshot was invoked. When the n successful top-level dispatches
\* are the only transitions since construction (none nested in a listener, none
\* ended by a listener's error), a listener registered once before the first and
\* still subscribed has been invoked exactly n times.
C8_DispatchOrdering ==
  /\ [](/\ \A j \in NotifyFrames : stack[j].called = SubSeq(stack[j].snap, 1, stack[j].i)
        /\ (lastOp.op = "getState" /\ lastOp.result = "ok") => lastOp.val = currentState
        /\ (Idle /\ transitions = 1 + topDone)
             => \A h \in Handles : Early(h) => invoked[subs[h].listener] = topDone)
  /\ [][ /\ ReducerReturned
           => /\ currentState' = Reduce(currentReducer, currentState, Top.action)
              /\ transitions' = transitions + 1
              /\ currentListeners' = nextListeners
              /\ arrays[nextListeners] # <<>>
                   => /\ Len(stack') = Len(stack)
                      /\ stack'[Len(stack)].snap = arrays[nextListeners]
                      /\ stack'[Len(stack)].called = <<arrays[nextListeners][1]>>
         /\ (lastOp'.op = "dispatch" /\ lastOp'.result = "ok")
           => /\ lastOp'.act = Top.action
              /\ Top.caller # "init" => stack' = Pop
              /\ Top.phase = "notify" => Top.called = Top.snap
              /\ Top.phase = "reduce" => arrays[nextListeners] = <<>> ]_vars

\* Two top-level dispatches have returned, they are the only transitions after the
\* init one, and a listener registered before the first was invoked twice, with a
\* second listener in the passes.
C8_Witness ==
  /\ Idle
  /\ lastOp.op = "dispatch" /\ lastOp.result = "ok"
  /\ topDone = 2
  /\ transitions = 3
  /\ Len(arrays[currentListeners]) = 2
  /\ \E h \in Handles : Early(h) /\ invoked[subs[h].listener] = 2

\* C9 (as stated): read() after construction is r(undefined, INIT).
C9_Original ==
  (lastOp.op = "getState" /\ lastOp.result = "ok" /\ transitions = 1)
    => lastOp.val = Reduce(args.reducer, Undefined, InitAction)

\* C9: read() after construction is r(preloadedState, INIT), which is
\* r(undefined, INIT) when no preloaded state was given.
C9_InitialRead ==
  (lastOp.op = "getState" /\ lastOp.result = "ok" /\ transitions = 1)
    => /\ lastOp.val = Reduce(args.reducer, args.preloadedState.n, InitAction)
       /\ args.preloadedState.t = "undefined"
            => lastOp.val = Reduce(args.reducer, Undefined, InitAction)

\* A read right after constructing a store without a preloaded state.
C9_Witness ==
  /\ Idle
  /\ lastOp.op = "getState" /\ lastOp.result = "ok"
  /\ transitions = 1
  /\ args.preloadedState.t = "undefined"
  /\ lastOp.val = 0

\* C10: from the moment construction dispatches until the store is returned, and
\* ever after, the reducer has been called with the init action exactly once;
\* the store is returned after exactly one transition; the middleware of an
\* enhancer are set up after that transition, outside the reducer.
C10_OneInitTransition ==
  /\ pc \in {"constructing", "ready"} => initCalls = 1
  /\ (pc = "constructing" /\ stack # <<>> /\ Top.kind = "dispatch")
       => Top.action = InitAction /\ transitions = 0 /\ Len(stack) = 1
  /\ InMwInit => transitions = 1 /\ ~isDispatching
  /\ (lastOp.op = "createStore" /\ lastOp.result = "ok")
       => pc = "ready" /\ transitions = 1

\* A store constructed by a middleware enhancer has just been returned.
C10_Witness ==
  /\ pc = "ready"
  /\ lastOp.op = "createStore" /\ lastOp.result = "ok"
  /\ Len(middlewares) = 2
  /\ installed

\* C11: replaceReducer(r2) with a callable r2, called outside a reducer, makes r2
\* the active reducer and starts a transition with the replace action, with no
\* dispatch by the caller; when r2 returns, the stored state is r2(prior state,
\* replace action), the registry and the subscriptions are as before, and the pass
\* notifies the whole registry before replaceReducer returns; every transition uses
\* the active reducer, which only replaceReducer changes.
C11_ReducerReplacement ==
  [][ /\ (lastOp'.op = "replaceReducer" /\ lastOp'.result = "reducing")
           => /\ currentReducer' = lastOp'.val
              /\ stack' = Append(stack, ReduceFrame(lastOp'.val, ReplaceAction, "replace"))
              /\ UNCHANGED <<currentState, currentListeners, nextListeners, arrays, subs>>
      /\ (ReducerReturned /\ Top.caller = "replace")
           => /\ currentState' = Reduce(Top.reducer, currentState, ReplaceAction)
              /\ UNCHANGED <<currentReducer, subs, nextListeners>>
              /\ currentListeners' = nextListeners
              /\ arrays[nextListeners] # <<>>
                   => stack'[Len(stack)].snap = arrays[nextListeners]
      /\ (lastOp'.op = "replaceReducer" /\ lastOp'.result = "ok")
           => /\ stack' = Pop
              /\ Top.phase = "notify" => Top.called = Top.snap
      /\ ReducerReturned
           => currentState' = Reduce(Top.reducer, currentState, Top.action)
      /\ (DispatchCalled /\ lastOp'.result = "reducing")
           => stack' = Append(stack, ReduceFrame(currentReducer', lastOp'.act,
                                                 stack'[Len(stack')].caller))
      /\ (pc = "ready" /\ currentReducer' # currentReducer)
           => lastOp'.op = "replaceReducer" /\ currentReducer' = lastOp'.val ]_vars

\* The reducer was replaced, the listener subscribed before that was notified for
\* the replace transition and for the dispatch after it, which used the new reducer.
C11_Witness ==
  /\ Idle
  /\ currentReducer = "other" /\ args.reducer = "count"
  /\ lastOp.op = "dispatch" /\ lastOp.result = "ok"
  /\ transitions = 3
  /\ currentState = Reduce("other", Reduce("other", Reduce("count", Undefined, InitAction),
                                           ReplaceAction), Act("INC"))
  /\ \E h \in Handles : subs[h].early /\ subs[h].isSubscribed
                        /\ invoked[subs[h].listener] = 2

\* C12: a call of an unsubscribe handle that was already called successfully
\* returns without an error and changes nothing, in the reducer, in a listener and
\* at the top level: the registry keeps every other listener, also another
\* subscription of the same function.
C12_UnsubscribeIdempotent ==
  [][ (lastOp'.op = "unsubscribe" /\ ~subs[lastOp'.val].isSubscribed)
        => /\ lastOp'.result = "noop"
           /\ UNCHANGED <<storeVars, stack, transitions, invoked>> ]_vars

\* A handle called again while the reducer executes, with a second subscription of
\* the same function still in the registry.
C12_Witness ==
  /\ lastOp.op = "unsubscribe" /\ lastOp.result = "noop"
  /\ isDispatching
  /\ \E g \in Handles :
       /\ g # lastOp.val
       /\ subs[g].isSubscribed
       /\ subs[g].listener = subs[lastOp.val].listener
       /\ arrays[nextListeners] = <<subs[g].listener>>

\* The wrappers in progress: wrapper 1 was entered by a call of the augmented
\* dispatch, wrapper k + 1 by the next of wrapper k, and a dispatch of the store
\* by the next of the last wrapper (or by replaceReducer).
MwChain ==
  \A j \in 1..Len(stack) :
    /\ (stack[j].kind = "middleware" /\ stack[j].k = 1)
         => stack[j].caller \in {"top", "reducer", "listener", "api"}
    /\ (stack[j].kind = "middleware" /\ stack[j].k > 1)
         => /\ j > 1
            /\ stack[j - 1].kind = "middleware"
            /\ stack[j - 1].k = stack[j].k - 1
            /\ stack[j].caller = "next"
    /\ (stack[j].kind = "dispatch" /\ stack[j].caller \notin {"init", "replace"})
         => /\ j > 1
            /\ stack[j - 1].kind = "middleware"
            /\ stack[j - 1].k = Len(middlewares)
            /\ stack[j].caller = "middleware"

\* C13: on a store made by applyMiddleware(m1 .. mn), an action given to the
\* augmented dispatch enters the wrapper of m1; next in wrapper k enters wrapper
\* k + 1 with the action passed, and next in wrapper n is the store's own dispatch;
\* what wrapper k + 1 returns is returned to wrapper k, what the store's dispatch
\* returns (its action) to wrapper n, and what wrapper 1 returns to the caller of
\* the augmented dispatch.
C13_MiddlewareOrder ==
  /\ [](pc = "ready" => MwChain)
  /\ [][ /\ (lastOp'.op = "composedDispatch"
               \/ (lastOp'.op = "middlewareAPI.dispatch" /\ installed))
              => /\ stack' = Append(stack, MwFrame(1, lastOp'.act, stack'[Len(stack')].caller))
                 /\ UNCHANGED storeVars
         /\ lastOp'.op = "next"
              => /\ InMw /\ Top.k < Len(middlewares)
                 /\ stack' = Append(stack, MwFrame(Top.k + 1, lastOp'.act, "next"))
                 /\ UNCHANGED storeVars
         /\ (InMw /\ DispatchCalled)
              => /\ Top.k = Len(middlewares)
                 /\ lastOp'.result = "reducing"
                      => stack' = Append(stack, ReduceFrame(currentReducer, lastOp'.act,
                                                            "middleware"))
                 /\ lastOp'.result # "reducing" => stack' = stack
         /\ (lastOp'.op = "dispatch" /\ lastOp'.result = "ok" /\ Top.caller = "middleware")
              => /\ stack' = Pop
                 /\ lastOp'.act = Top.action
                 /\ stack'[Len(stack')].k = Len(middlewares)
         /\ (lastOp'.op = "middleware" /\ lastOp'.result = "returned")
              => /\ InMw
                 /\ stack' = Pop
                 /\ Top.k > 1 => stack'[Len(stack')].k = Top.k - 1
                 /\ Top.k = 1
                      => Ctx' = (IF Top.caller = "api" THEN "middleware" ELSE Top.caller) ]_vars

\* With middleware [A, B]: B has returned to A a value that is not the action A was
\* given, after the store's dispatch made a transition.
C13_Witness ==
  /\ Len(middlewares) = 2
  /\ InMw /\ Top.k = 1
  /\ lastOp.op = "middleware" /\ lastOp.result = "returned"
  /\ lastOp.act # Top.action
  /\ lastOp.act # NoAction
  /\ transitions = 2

\* C14: middlewareAPI.dispatch called while the middleware are being instantiated
\* ends with the construction error and changes nothing: from the init transition
\* until the store is returned the only call in progress is the instantiation, so
\* no wrapper is entered, the store's dispatch is not called and the reducer is not
\* invoked again.
C14_DispatchDuringConstruction ==
  /\ []((pc = "constructing" /\ transitions >= 1)
          => /\ Len(stack) = 1 /\ Top.kind = "mwInit"
             /\ transitions = 1 /\ initCalls = 1
             /\ ~isDispatching /\ ~installed)
  /\ [][ (lastOp'.op = "middlewareAPI.dispatch" /\ ~installed)
           => /\ InMwInit
              /\ lastOp'.result = "constructionError"
              /\ UNCHANGED <<pc, storeVars, stack, installed, transitions, invoked>> ]_vars

\* The second middleware of [A, B] has called middlewareAPI.dispatch while it was
\* being instantiated.
C14_Witness ==
  /\ pc = "constructing"
  /\ InMwInit /\ Top.k = 2
  /\ lastOp.op = "middlewareAPI.dispatch" /\ lastOp.result = "constructionError"
  /\ transitions = 1

\* Below every call of the store's dispatch made through the chain lie the
\* wrappers of all the middleware, in order.
FullChain ==
  \A j \in 1..Len(stack) :
    (stack[j].kind = "dispatch" /\ stack[j].caller = "middleware")
      => /\ j > Len(middlewares)
         /\ \A m \in 1..Len(middlewares) :
              /\ stack[j - 1 - Len(middlewares) + m].kind = "middleware"
              /\ stack[j - 1 - Len(middlewares) + m].k = m

\* C15: there is one middlewareAPI, and once the store is returned its dispatch is
\* the augmented dispatch: called from the wrapper of any middleware, it enters the
\* wrapper of the first middleware with the action given, whatever the position of
\* the caller in the chain, and the action reaches the store's dispatch only
\* through the wrappers of all the middleware.
C15_ForwarderReentersChain ==
  /\ []((pc = "ready" /\ middlewares # <<>>) => (installed /\ FullChain))
  /\ [][ (lastOp'.op = "middlewareAPI.dispatch" /\ pc = "ready")
           => /\ InMw
              /\ lastOp'.result = "called"
              /\ stack' = Append(stack, MwFrame(1, lastOp'.act, "api"))
              /\ UNCHANGED storeVars ]_vars

\* With [A, B]: B has called middlewareAPI.dispatch and the action has passed
\* through A again and entered B again.
C15_Witness ==
  /\ Len(middlewares) = 2
  /\ Len(stack) = 4
  /\ stack[2].kind = "middleware" /\ stack[2].k = 2
  /\ stack[3].kind = "middleware" /\ stack[3].k = 1 /\ stack[3].caller = "api"
  /\ stack[4].kind = "middleware" /\ stack[4].k = 2

\* C16: compose()(x) is x and calls nothing; compose(f)(x) is f(x); in general
\* compose(f1 .. fn)(x) is f1(.. fn(x)), with one call of each function of the list,
\* the last of the list first; compose(f, g, h)(x) is f(g(h(x))).
C16_Composition ==
  composeRun.done
    => /\ composeRun.val = composeRun.funcs \o composeRun.x
       /\ composeRun.calls = [j \in 1..Len(composeRun.funcs) |->
                                composeRun.funcs[Len(composeRun.funcs) + 1 - j]]
       /\ Len(composeRun.funcs) = 0
            => composeRun.val = composeRun.x /\ composeRun.calls = <<>>
       /\ Len(composeRun.funcs) = 1
            => composeRun.val = <<composeRun.funcs[1]>> \o composeRun.x
       /\ Len(composeRun.funcs) = 3
            => composeRun.val =
                 CallFn(composeRun.funcs[1],
                   CallFn(composeRun.funcs[2],
                     CallFn(composeRun.funcs[3],
                            [val |-> composeRun.x, calls |-> <<>>]))).val

\* compose(f, g, h)("x") has returned f(g(h(x))).
C16_Witness ==
  /\ composeRun.done
  /\ composeRun.funcs = <<"f", "g", "h">>
  /\ composeRun.val = <<"f", "g", "h", "x">>
  /\ composeRun.calls = <<"h", "g", "f">>

\* This step is the normal return of a store.dispatch call made from outside every
\* reducer, listener and middleware.
TopReturns ==
  /\ Len(stack) = 1 /\ Top.kind = "dispatch" /\ Top.caller = "top"
  /\ stack' = <<>>
  /\ lastOp'.op = "dispatch" /\ lastOp'.result = "ok"

\* Subscription h was made before the outermost dispatch started and not yet ended
\* then: no subscription starts or ends while the reducer runs, so these are the
\* subscriptions at the snapshot (or now, when the reducer is only just returning).
RegisteredAtStart(h) ==
  IF Top.phase = "reduce" THEN subs[h].isSubscribed
  ELSE h \in 1..Len(Top.alive) /\ Top.alive[h]

C18_ActionValidation ==
  [][(DispatchCalled /\ ~Valid(lastOp'.act))
       => /\ lastOp'.result = "argumentError"
          /\ UNCHANGED <<storeVars, stack, initCalls, transitions, invoked, sinceUpdate>>]_vars

\* A reducer, with a subscriber registered and the state changed before, has
\* dispatched {type: undefined} and got the argument error.
C18_Witness ==
  /\ lastOp.op = "dispatch" /\ lastOp.result = "argumentError"
  /\ lastOp.act = Act("undefined")
  /\ Ctx = "reducer" /\ isDispatching
  /\ currentState = 1
  /\ \E h \in Handles : subs[h].isSubscribed

\* C19: every call of a store operation that ends in the argument error or the
\* context error leaves the state, the active reducer, the listener arrays, the
\* subscriptions and the isDispatching flag as they were before the call; so does
\* replaceReducer(r2) called while a reducer is executing.
C19_Original ==
  [][lastOp'.result \in {"argumentError", "contextError"}
       => UNCHANGED <<currentState, currentReducer, currentListeners, nextListeners,
                      arrays, subs, isDispatching>>]_vars

\* The actions createStore and replaceReducer dispatch themselves.
Reserved == {ActionTypes.INIT, ActionTypes.REPLACE}

\* C20: on a store made by applyMiddleware, createStore's INIT dispatch and
\* replaceReducer's REPLACE dispatch are calls of the store's own dispatch: no
\* middleware wrapper is ever called with either action, the reducer is called at
\* once, and replaceReducer returns only after the pass that calls every listener of
\* the snapshot taken after the new reducer returned.
C20_ReservedBypassMiddleware ==
  /\ [](middlewares # <<>>
          => /\ \A j \in 1..Len(stack) :
                  stack[j].kind = "middleware" => stack[j].action.type \notin Reserved
             /\ lastOp.op \in {"composedDispatch", "next", "middlewareAPI.dispatch"}
                  => lastOp.act.type \notin Reserved)
  /\ [][middlewares' # <<>>
          => /\ (lastOp'.op = "replaceReducer" /\ lastOp'.result = "reducing")
                  => stack' = Append(stack, ReduceFrame(lastOp'.val, ReplaceAction,
                                                        "replace"))
             /\ (pc = "start" /\ pc' = "constructing")
                  => stack' = <<ReduceFrame(currentReducer', InitAction, "init")>>
             /\ (ReducerReturned /\ Top.caller = "replace")
                  => /\ transitions' = transitions + 1
                     /\ IF arrays[nextListeners] = <<>>
                        THEN lastOp' = Op("replaceReducer", "ok", Undefined, NoAction)
                        ELSE /\ stack'[Len(stack')].snap = arrays[nextListeners]
                             /\ stack'[Len(stack')].called = <<arrays[nextListeners][1]>>
                             /\ invoked' = [invoked EXCEPT
                                              ![arrays[nextListeners][1]] = @ + 1]
             /\ (lastOp'.op = "replaceReducer" /\ lastOp'.result = "ok"
                   /\ Top.phase = "notify")
                  => Top.caller = "replace" /\ Top.called = Top.snap]_vars

\* On a store with middleware, replaceReducer called from outside has called the new
\* reducer with REPLACE and is calling the subscribed listener, no wrapper on the stack.
C20_Witness ==
  /\ pc = "ready" /\ middlewares # <<>> /\ installed
  /\ Len(stack) = 1
  /\ Top.kind = "dispatch" /\ Top.phase = "notify" /\ Top.caller = "replace"
  /\ Top.action = ReplaceAction
  /\ Top.called = <<"L1">>
  /\ currentReducer = "other"
  /\ initCalls = 1

\* C21: when a listener throws during a pass, the dispatch ends there and control is
\* back in its caller; the state, the reducer, the listener arrays and the
\* subscriptions stay as they are (the state is not rolled back); the listeners after
\* it in the snapshot are not called for that transition; isDispatching is false, so
\* that the next getState returns the state, the next valid dispatch calls the reducer
\* and the next subscribe of a function succeeds.
C21_ListenerFailure ==
  /\ [][(lastOp'.op = "dispatch" /\ lastOp'.result = "listenerError")
          => /\ Top.kind = "dispatch" /\ Top.phase = "notify"
             /\ stack' = Pop
             /\ pc' = pc
             /\ UNCHANGED <<currentState, currentReducer, currentListeners, nextListeners, subs>>
             /\ ~isDispatching /\ ~isDispatching'
             /\ Top.called = SubSeq(Top.snap, 1, Top.i)
             /\ invoked' = invoked
             /\ transitions' = transitions]_vars
  /\ [][lastOp.result = "listenerError"
          => /\ lastOp'.op = "getState"
                  => lastOp'.result = "ok" /\ lastOp'.val = currentState
             /\ (DispatchCalled /\ Valid(lastOp'.act))
                  => /\ lastOp'.result = "reducing"
                     /\ stack' = Append(stack, ReduceFrame(currentReducer, lastOp'.act,
                                                           stack'[Len(stack')].caller))
             /\ (lastOp'.op = "subscribe" /\ lastOp'.result # "argumentError")
                  => lastOp'.result = "ok" /\ Len(subs') = Len(subs) + 1]_vars

\* The first of two subscribed listeners has thrown in the pass of a caller's
\* dispatch: the state is the reducer's result, the second listener was not called,
\* and control is back outside.
C21_Witness ==
  /\ pc = "ready" /\ stack = <<>>
  /\ lastOp.op = "dispatch" /\ lastOp.result = "listenerError"
  /\ transitions = 2 /\ currentState = 1
  /\ ~isDispatching
  /\ Len(subs) = 2 /\ subs[1].isSubscribed /\ subs[2].isSubscribed
  /\ subs[1].listener # subs[2].listener
  /\ invoked[subs[1].listener] = 1 /\ invoked[subs[2].listener] = 0

\* The registry: the array subscribe and unsubscribe work on.
Registry == arrays[nextListeners]

\* The subscriptions of listener function fn that are in force.
InForce(fn) == {h \in Handles : subs[h].isSubscribed /\ subs[h].listener = fn}

\* seq without its element number j.
Without(seq, j) == [m \in 1..(Len(seq) - 1) |-> IF m < j THEN seq[m] ELSE seq[m + 1]]

====
